---- MODULE Spec2Model ----
(***************************************************************************)
(* A model of the UTXO ledger of the blockchain package:                   *)
(*   blockchain/blockchain.py  (class Blockchain)                          *)
(*   blockchain/block.py       (Block, BlockHeader)                        *)
(*   blockchain/transaction.py (Transaction and its parts)                 *)
(*                                                                         *)
(* Modelling conventions.                                                  *)
(*  - SHA-256 is an ideal (injective) hash: Sha256(x) is the tagged        *)
(*    preimage.  The leading hex digits of a block hash, which the         *)
(*    proof-of-work loop inspects, are a function of the preimage          *)
(*    (DigestPrefix).                                                      *)
(*  - The key/value stores are functions from keys to records.  At each    *)
(*    call site a read of a missing key behaves the way the code at that   *)
(*    site handles it (falsy at blockchain.py:98, KeyError at              *)
(*    blockchain.py:165/174).                                              *)
(*  - A signature is the name of the wallet that produced it over the      *)
(*    transaction's signable payload, or BadSig for anything else.         *)
(*  - Time is a counter that advances with every mined block.              *)
(***************************************************************************)
EXTENDS Integers, Sequences, FiniteSets, TLC

VARIABLES
    blocks_db,                 \* blocks store: block hash -> block record
    last_block,                \* blocks store: key b'last_block'
    stored_block_hashes,       \* blocks store: key b'block_hashes'
    utxo_db,                   \* utxo store: <<tx_id, output_index>> -> entry
    block_hashes,              \* self.block_hashes
    unconfirmed_transactions,  \* self.unconfirmed_transactions (the mempool)
    known_tx_ids,              \* self.known_tx_ids
    now,                       \* the wall clock read by time.time()/utcnow()
    ret,                       \* the last call: its name, argument and result
    accepted,                  \* history: transactions this object accepted
    running,                   \* thread -> locals of its mine_block call
    wallets,                   \* backend: the wallets collection, by address
    tasks                      \* backend: task -> locals of its submit_transaction

vars == <<blocks_db, last_block, stored_block_hashes, utxo_db, block_hashes,
          unconfirmed_transactions, known_tx_ids, now, ret, accepted,
          running, wallets, tasks>>

\* the state of the ledger process, and the state of the backend process
ledger == <<blocks_db, last_block, stored_block_hashes, utxo_db, block_hashes,
            unconfirmed_transactions, known_tx_ids, now, accepted, running>>
backend == <<wallets, tasks>>

\* the wallets collection before any transaction: a document per address
InitialBalance == 1
WalletDocuments ==
    [address \in {"W1", "W2"} |-> [balance |-> InitialBalance, nonce |-> 0]]

(***************************************************************************)
(* Bounds of the model.                                                    *)
(***************************************************************************)
MaxBlocks == 3        \* chain length, genesis included
MaxMempool == 2       \* mempool length
MaxInputs == 1        \* inputs per submitted transaction
MaxOutputs == 5       \* outputs held by the utxo store and the mempool together
HexBase == 2          \* values of one digest digit (16 in the code)

(***************************************************************************)
(* Program constants.                                                      *)
(***************************************************************************)
REWARD_AMOUNT == 50   \* _create_coinbase_transaction: amount=50
MINE_DIFFICULTY == 4  \* block.mine(difficulty=4)
HEADER_DIFFICULTY == 4 \* BlockHeader.difficulty default

None == "None"
NoBlock == <<>>                     \* the None that mine_block returns
ZeroDigest == <<"hex", "0 * 64">>   \* "0" * 64
EmptyRoot == <<"hex", "">>          \* the "" that _calculate_merkle_root([]) returns
TRANSFER == "TRANSFER"
MEMORY == "MEMORY"
FEEDBACK == "FEEDBACK"
REWARD == "REWARD"
TransactionType == {TRANSFER, MEMORY, FEEDBACK, REWARD}

Addresses == {"W1", "W2"}
BadSig == "bad"

(***************************************************************************)
(* Hashing.                                                                *)
(***************************************************************************)
Sha256(x) == <<"sha256", x>>

RECURSIVE Pow(_, _)
Pow(b, e) == IF e = 0 THEN 1 ELSE b * Pow(b, e - 1)

\* The first MINE_DIFFICULTY digits of a block digest, as a number in base
\* HexBase.  Every change of the nonce by one changes it.
DigestPrefix(h) ==
    LET body == h[2]
    IN (body.header.index + body.header.timestamp + Len(body.transactions)
        + body.header.nonce) % Pow(HexBase, MINE_DIFFICULTY)

\* str.startswith('0' * d) on a block digest
StartsWithZeros(h, d) ==
    \/ d = 0
    \/ /\ d <= MINE_DIFFICULTY
       /\ DigestPrefix(h) < Pow(HexBase, MINE_DIFFICULTY - d)

(***************************************************************************)
(* transaction.py                                                          *)
(***************************************************************************)
TransactionInput(tx_id, output_index, signature) ==
    [tx_id |-> tx_id, output_index |-> output_index, signature |-> signature]

TransactionOutput(amount, address, data) ==
    [amount |-> amount, address |-> address, data |-> data]

\* Transaction.compute_hash
tx_compute_hash(tx_type, inputs, outputs, timestamp, sender_address) ==
    Sha256([tx_type |-> tx_type, inputs |-> inputs, outputs |-> outputs,
            timestamp |-> timestamp, sender_address |-> sender_address])

\* Transaction.__init__ without a supplied tx_id
Transaction(tx_type, inputs, outputs, timestamp, sender_address) ==
    [tx_id |-> tx_compute_hash(tx_type, inputs, outputs, timestamp, sender_address),
     tx_type |-> tx_type, inputs |-> inputs, outputs |-> outputs,
     timestamp |-> timestamp, sender_address |-> sender_address]

(***************************************************************************)
(* block.py                                                                *)
(***************************************************************************)
\* mutant: the header records one zero digit more than mine is asked for
BlockHeader_one_more(index, previous_hash, timestamp, merkle_root) ==
    [index |-> index, previous_hash |-> previous_hash, timestamp |-> timestamp,
     nonce |-> 0, difficulty |-> HEADER_DIFFICULTY + 1, merkle_root |-> merkle_root]

\* BlockHeader
BlockHeader(index, previous_hash, timestamp, merkle_root) ==
    [index |-> index, previous_hash |-> previous_hash, timestamp |-> timestamp,
     nonce |-> 0, difficulty |-> HEADER_DIFFICULTY, merkle_root |-> merkle_root]

\* Block.compute_hash
block_compute_hash(block) ==
    Sha256([header |-> block.header, transactions |-> block.transactions])

\* Block.mine: the while loop
RECURSIVE mine_loop(_, _)
mine_loop(block, difficulty) ==
    IF StartsWithZeros(block.hash, difficulty)
    THEN block
    ELSE LET b1 == [block EXCEPT !.header.nonce = @ + 1]
         IN mine_loop([b1 EXCEPT !.hash = block_compute_hash(b1)], difficulty)

\* mutant: the nonce is increased once before the first test
mine_stepping_first(block, difficulty) ==
    LET b1 == [block EXCEPT !.header.nonce = @ + 1]
    IN mine_loop([b1 EXCEPT !.hash = block_compute_hash(b1)], difficulty)

\* Block.mine
mine(block, difficulty) ==
    mine_loop([block EXCEPT !.hash = block_compute_hash(block)], difficulty)

(***************************************************************************)
(* blockchain.py: pure helpers                                             *)
(***************************************************************************)
utxo_key(tx_id, output_index) == <<tx_id, output_index>>

\* _calculate_merkle_root: one level, hashing the pairs of an even-length list
RECURSIVE pair_hashes(_)
pair_hashes(tx_hashes) ==
    IF Len(tx_hashes) = 0
    THEN <<>>
    ELSE <<Sha256([left |-> tx_hashes[1], right |-> tx_hashes[2]])>>
         \o pair_hashes(SubSeq(tx_hashes, 3, Len(tx_hashes)))

\* _calculate_merkle_root: the while loop
RECURSIVE merkle_loop(_)
merkle_loop(tx_hashes) ==
    IF Len(tx_hashes) > 1
    THEN LET padded == IF Len(tx_hashes) % 2 # 0
                       THEN Append(tx_hashes, tx_hashes[Len(tx_hashes)])
                       ELSE tx_hashes
         IN merkle_loop(pair_hashes(padded))
    ELSE tx_hashes[1]

_calculate_merkle_root(transactions) ==
    IF transactions = <<>>
    THEN EmptyRoot
    ELSE merkle_loop([i \in 1..Len(transactions) |-> transactions[i].tx_id])

\* _create_coinbase_transaction, created at time t
_create_coinbase_transaction(miner_address, t) ==
    Transaction(REWARD, <<>>,
                <<TransactionOutput(REWARD_AMOUNT, miner_address, None)>>, t, None)

\* mutant: new entries are stored as already spent
put_outputs_spent(utxo, tx, block_hash) ==
    LET new == {utxo_key(tx.tx_id, i - 1) : i \in 1..Len(tx.outputs)}
    IN [k \in (DOMAIN utxo) \cup new |->
          IF k \in new
          THEN [tx_id |-> tx.tx_id, output_index |-> k[2],
                output |-> tx.outputs[k[2] + 1], block_hash |-> block_hash,
                spent |-> TRUE]
          ELSE utxo[k]]

\* _update_utxo_set, lines 84-93: the outputs of one transaction
put_outputs(utxo, tx, block_hash) ==
    LET new == {utxo_key(tx.tx_id, i - 1) : i \in 1..Len(tx.outputs)}
    IN [k \in (DOMAIN utxo) \cup new |->
          IF k \in new
          THEN [tx_id |-> tx.tx_id, output_index |-> k[2],
                output |-> tx.outputs[k[2] + 1], block_hash |-> block_hash,
                spent |-> FALSE]
          ELSE utxo[k]]

\* _update_utxo_set, lines 96-101: the inputs of one transaction
mark_inputs_spent(utxo, tx) ==
    LET refs == {utxo_key(tx.inputs[i].tx_id, tx.inputs[i].output_index) :
                    i \in 1..Len(tx.inputs)}
    IN [k \in DOMAIN utxo |->
          IF k \in refs THEN [utxo[k] EXCEPT !.spent = TRUE] ELSE utxo[k]]

\* _update_utxo_set: the loop over the block's transactions, from the i-th on
RECURSIVE update_utxo_from(_, _, _)
update_utxo_from(utxo, block, i) ==
    IF i > Len(block.transactions)
    THEN utxo
    ELSE update_utxo_from(
             mark_inputs_spent(
                 put_outputs(utxo, block.transactions[i], block.hash),
                 block.transactions[i]),
             block, i + 1)

_update_utxo_set(utxo, block) == update_utxo_from(utxo, block, 1)

\* mutant: the merkle root the header was constructed with, "0" * 64, is kept
genesis_block_root_unset(t) ==
    LET b == [header |-> BlockHeader(0, ZeroDigest, t, ZeroDigest),
              transactions |-> <<>>, hash |-> None]
    IN mine(b, MINE_DIFFICULTY)

\* _create_genesis_block, created at time t
genesis_block(t) ==
    LET b == [header |-> BlockHeader(0, ZeroDigest, t, _calculate_merkle_root(<<>>)),
              transactions |-> <<>>, hash |-> None]
    IN mine(b, MINE_DIFFICULTY)

\* put of one key into a store
Put(db, k, v) == [x \in (DOMAIN db) \cup {k} |-> IF x = k THEN v ELSE db[x]]

RECURSIVE SumAmounts(_, _)
SumAmounts(utxo, keys) ==
    IF keys = {}
    THEN 0
    ELSE LET k == CHOOSE x \in keys : TRUE
         IN utxo[k].output.amount + SumAmounts(utxo, keys \ {k})

\* mutant: the spent flag is not looked at
balance_of_ignoring_spent(utxo, address) ==
    SumAmounts(utxo, {k \in DOMAIN utxo : utxo[k].output.address = address})

\* get_balance: the value returned
balance_of(utxo, address) ==
    SumAmounts(utxo, {k \in DOMAIN utxo :
                        ~utxo[k].spent /\ utxo[k].output.address = address})

(***************************************************************************)
(* blockchain.py: transaction validation                                   *)
(***************************************************************************)
\* _verify_transaction_input: output.get("public_key") is None when the output
\* has no such field, and a hex text is falsy when it is empty
_verify_transaction_input(transaction, tx_input, utxo_data) ==
    LET output == utxo_data.output
    IN IF ~("public_key" \in DOMAIN output) \/ output["public_key"] = <<>>
       THEN FALSE
       ELSE TRUE

\* _validate_transaction, lines 161-175: one input passes
input_ok(transaction, tx_input) ==
    LET key == utxo_key(tx_input.tx_id, tx_input.output_index)
    IN /\ key \in DOMAIN utxo_db
       /\ ~utxo_db[key].spent
       /\ _verify_transaction_input(transaction, tx_input, utxo_db[key])

RECURSIVE SumSeq(_, _)
SumSeq(f, n) == IF n = 0 THEN 0 ELSE f[n] + SumSeq(f, n - 1)

\* input_sum after the loop, when every input passed
input_sum(transaction) ==
    SumSeq([i \in 1..Len(transaction.inputs) |->
              utxo_db[utxo_key(transaction.inputs[i].tx_id,
                               transaction.inputs[i].output_index)].output.amount],
           Len(transaction.inputs))

output_sum(transaction) ==
    SumSeq([i \in 1..Len(transaction.outputs) |-> transaction.outputs[i].amount],
           Len(transaction.outputs))

\* mutant: only the mempool is searched for the id
already_known_in_mempool(transaction) ==
    \E i \in DOMAIN unconfirmed_transactions :
       unconfirmed_transactions[i].tx_id = transaction.tx_id

\* _validate_transaction, line 153
already_known(transaction) == transaction.tx_id \in known_tx_ids

\* mutant: the comparison is turned around
inputs_do_not_cover_flipped(transaction) ==
    /\ transaction.tx_type # MEMORY
    /\ input_sum(transaction) > output_sum(transaction)

\* _validate_transaction, line 178
inputs_do_not_cover(transaction) ==
    /\ transaction.tx_type # MEMORY
    /\ input_sum(transaction) < output_sum(transaction)

_validate_transaction(transaction) ==
    IF already_known(transaction)
    THEN FALSE
    ELSE IF transaction.tx_type # REWARD
    THEN IF \E i \in 1..Len(transaction.inputs) :
               ~input_ok(transaction, transaction.inputs[i])
         THEN FALSE
         ELSE IF inputs_do_not_cover(transaction)
         THEN FALSE
         ELSE TRUE
    ELSE TRUE

(***************************************************************************)
(* The transactions callers submit.  Wallet.create_transaction and the     *)
(* create_memory_tx / create_feedback_tx helpers build one output and no   *)
(* inputs; add_transaction takes any Transaction, so the submitted ones    *)
(* also carry up to MaxInputs inputs.  An input references a value-bearing *)
(* output of the sender (signed by its owner, or with a bad signature) or  *)
(* an output that does not exist.                                          *)
(***************************************************************************)
Sender == "W1"
Recipient == "W2"
Miners == {Sender}
\* the id of a transaction without outputs: no output 0 of it ever exists
AbsentKey == utxo_key(tx_compute_hash(TRANSFER, <<>>, <<>>, 0, None), 0)

OwnKeys ==
    {k \in DOMAIN utxo_db :
        utxo_db[k].output.address = Sender /\ utxo_db[k].output.amount > 0}

InputChoices ==
    {TransactionInput(k[1], k[2], s) :
        k \in OwnKeys, s \in {Sender, BadSig}}
    \cup {TransactionInput(AbsentKey[1], AbsentKey[2], BadSig)}

InputLists == UNION {[1..n -> InputChoices] : n \in 0..MaxInputs}

OutputsFor(tx_type) ==
    CASE tx_type = TRANSFER ->
           {<<TransactionOutput(a, Recipient, None)>> :
               a \in {REWARD_AMOUNT, REWARD_AMOUNT + 1}}
      [] tx_type = MEMORY ->
           {<<TransactionOutput(0, Sender, "memory_data")>>}
      [] tx_type = FEEDBACK ->
           {<<TransactionOutput(0, Sender, "feedback_data")>>}
      [] tx_type = REWARD ->
           {<<TransactionOutput(REWARD_AMOUNT, Recipient, None)>>}

SubmittedTransactions ==
    {Transaction(x[1][1], x[2], x[1][2], 0, Sender) :
        x \in (UNION {{ty} \X OutputsFor(ty) : ty \in TransactionType})
               \X InputLists}

(***************************************************************************)
(* blockchain.py: the operations                                           *)
(***************************************************************************)
\* mutant: the first block of the hash list is taken for the head
get_last_block_first == blocks_db[block_hashes[1]]

\* get_last_block
get_last_block == blocks_db[last_block]

\* mutant: the hash list is started again with the new block
_store_block_restarting_list(block) ==
    /\ blocks_db' = Put(blocks_db, block.hash, block)
    /\ last_block' = block.hash
    /\ block_hashes' = <<block.hash>>
    /\ stored_block_hashes' = <<block.hash>>
    /\ utxo_db' = _update_utxo_set(utxo_db, block)

\* _store_block
_store_block(block) ==
    /\ blocks_db' = Put(blocks_db, block.hash, block)
    /\ last_block' = block.hash
    /\ block_hashes' = Append(block_hashes, block.hash)
    /\ stored_block_hashes' = Append(block_hashes, block.hash)
    /\ utxo_db' = _update_utxo_set(utxo_db, block)

\* __init__ over an empty store: _initialize_blockchain creates the genesis block
Init ==
    LET g == genesis_block(0)
    IN /\ blocks_db = Put(<<>>, g.hash, g)
       /\ last_block = g.hash
       /\ block_hashes = <<g.hash>>
       /\ stored_block_hashes = <<g.hash>>
       /\ utxo_db = _update_utxo_set(<<>>, g)
       /\ unconfirmed_transactions = <<>>
       /\ known_tx_ids = {}
       /\ now = 1
       /\ ret = [op |-> "__init__", arg |-> None, value |-> None]
       /\ accepted = {}
       /\ running = <<>>
       /\ wallets = WalletDocuments
       /\ tasks = <<>>

\* mutant: the id of a rejected transaction is recorded as known
add_transaction_recording_rejected(transaction) ==
    IF ~_validate_transaction(transaction)
    THEN /\ ret' = [op |-> "add_transaction", arg |-> transaction, value |-> FALSE]
         /\ known_tx_ids' = known_tx_ids \cup {transaction.tx_id}
         /\ UNCHANGED <<backend, running,
                        blocks_db, last_block, stored_block_hashes, utxo_db,
                        block_hashes, unconfirmed_transactions, now, accepted>>
    ELSE /\ Len(unconfirmed_transactions) < MaxMempool
         /\ Cardinality(DOMAIN utxo_db) + Len(unconfirmed_transactions) < MaxOutputs
         /\ unconfirmed_transactions' = Append(unconfirmed_transactions, transaction)
         /\ known_tx_ids' = known_tx_ids \cup {transaction.tx_id}
         /\ ret' = [op |-> "add_transaction", arg |-> transaction, value |-> TRUE]
         /\ accepted' = accepted \cup {transaction}
         /\ UNCHANGED <<backend, running,
                        blocks_db, last_block, stored_block_hashes, utxo_db,
                        block_hashes, now>>

\* add_transaction
add_transaction(transaction) ==
    IF ~_validate_transaction(transaction)
    THEN /\ ret' = [op |-> "add_transaction", arg |-> transaction, value |-> FALSE]
         /\ UNCHANGED <<backend, running,
                        blocks_db, last_block, stored_block_hashes, utxo_db,
                        block_hashes, unconfirmed_transactions, known_tx_ids,
                        now, accepted>>
    ELSE /\ Len(unconfirmed_transactions) < MaxMempool
         /\ Cardinality(DOMAIN utxo_db) + Len(unconfirmed_transactions) < MaxOutputs
         /\ unconfirmed_transactions' = Append(unconfirmed_transactions, transaction)
         /\ known_tx_ids' = known_tx_ids \cup {transaction.tx_id}
         /\ ret' = [op |-> "add_transaction", arg |-> transaction, value |-> TRUE]
         /\ accepted' = accepted \cup {transaction}
         /\ UNCHANGED <<backend, running,
                        blocks_db, last_block, stored_block_hashes, utxo_db,
                        block_hashes, now>>

\* mutant: the empty-mempool check is missing
nothing_to_mine_unchecked == FALSE

\* mine_block, line 116
nothing_to_mine == unconfirmed_transactions = <<>>

\* mutant: the reward transaction is appended after the mempool
candidate_block_reward_last(miner_address) ==
    LET prev_block == get_last_block
        reward_tx == _create_coinbase_transaction(miner_address, now)
        transactions == unconfirmed_transactions \o <<reward_tx>>
        block == [header |-> BlockHeader(prev_block.header.index + 1,
                                         prev_block.hash, now,
                                         _calculate_merkle_root(transactions)),
                  transactions |-> transactions,
                  hash |-> None]
    IN mine(block, MINE_DIFFICULTY)

\* mine_block, lines 119-140: the sealed candidate block
candidate_block(miner_address) ==
    LET prev_block == get_last_block
        reward_tx == _create_coinbase_transaction(miner_address, now)
        transactions == <<reward_tx>> \o unconfirmed_transactions
        block == [header |-> BlockHeader(prev_block.header.index + 1,
                                         prev_block.hash, now,
                                         _calculate_merkle_root(transactions)),
                  transactions |-> transactions,
                  hash |-> None]
    IN mine(block, MINE_DIFFICULTY)

\* mine_block
mine_block(miner_address) ==
    IF nothing_to_mine
    THEN /\ ret' = [op |-> "mine_block", arg |-> miner_address, value |-> NoBlock]
         /\ UNCHANGED <<backend, running,
                        blocks_db, last_block, stored_block_hashes, utxo_db,
                        block_hashes, unconfirmed_transactions, known_tx_ids,
                        now, accepted>>
    ELSE /\ Len(block_hashes) < MaxBlocks
         /\ LET block == candidate_block(miner_address)
            IN /\ _store_block(block)
               /\ ret' = [op |-> "mine_block", arg |-> miner_address, value |-> block]
         /\ unconfirmed_transactions' = <<>>
         /\ now' = now + 1
         /\ UNCHANGED <<backend, running, known_tx_ids, accepted>>

\* get_balance
get_balance(address) ==
    /\ ret' = [op |-> "get_balance", arg |-> address,
                 value |-> balance_of(utxo_db, address)]
    /\ UNCHANGED <<backend, running,
                   blocks_db, last_block, stored_block_hashes, utxo_db,
                   block_hashes, unconfirmed_transactions, known_tx_ids,
                   now, accepted>>

\* mutant: the genesis block is created although the head pointer exists
Restart_creating_genesis ==
    /\ LET g == genesis_block(now)
       IN /\ blocks_db' = Put(blocks_db, g.hash, g)
          /\ last_block' = g.hash
          /\ block_hashes' = <<g.hash>>
          /\ stored_block_hashes' = <<g.hash>>
          /\ utxo_db' = _update_utxo_set(utxo_db, g)
    /\ unconfirmed_transactions' = <<>>
    /\ known_tx_ids' = {}
    /\ accepted' = {}
    /\ ret' = [op |-> "__init__", arg |-> None, value |-> None]
    /\ UNCHANGED <<backend, running, now>>

\* __init__ over the existing store (the process restarts): the head pointer
\* is present, so _initialize_blockchain loads the stored hash list
Restart ==
    /\ block_hashes' = stored_block_hashes
    /\ unconfirmed_transactions' = <<>>
    /\ known_tx_ids' = {}
    /\ accepted' = {}
    /\ ret' = [op |-> "__init__", arg |-> None, value |-> None]
    /\ UNCHANGED <<backend, running,
                   blocks_db, last_block, stored_block_hashes, utxo_db, now>>

Next ==
    \/ \E transaction \in SubmittedTransactions : add_transaction(transaction)
    \/ \E miner_address \in Miners : mine_block(miner_address)
    \/ \E address \in Addresses : get_balance(address)

\* one Blockchain object from its construction on
Spec == Init /\ [][Next]_vars

\* the store outlives the object: the process may restart at any time
NextRestart == Next \/ Restart

SpecRestart == Init /\ [][NextRestart]_vars

(***************************************************************************)
(* Chain verification over a store that something other than this program  *)
(* may have written to.                                                    *)
(***************************************************************************)
\* get_block
get_block(block_hash) ==
    IF block_hash \in DOMAIN blocks_db THEN blocks_db[block_hash] ELSE NoBlock

\* is_chain_valid, lines 277-290: the three checks on the i-th block
block_checks_pass(i) ==
    LET current_block == get_block(block_hashes[i])
        previous_block == get_block(block_hashes[i - 1])
    IN /\ block_compute_hash(current_block) = current_block.hash
       /\ current_block.header.previous_hash = previous_block.hash
       /\ current_block.header.merkle_root
             = _calculate_merkle_root(current_block.transactions)

\* is_chain_valid: range(1, len(self.block_hashes)) are the blocks after the
\* genesis block
is_chain_valid ==
    /\ ret' = [op |-> "is_chain_valid", arg |-> None,
                 value |-> \A i \in 2..Len(block_hashes) : block_checks_pass(i)]
    /\ UNCHANGED <<backend, running,
                   blocks_db, last_block, stored_block_hashes, utxo_db,
                   block_hashes, unconfirmed_transactions, known_tx_ids,
                   now, accepted>>

\* a transaction that no wallet submitted
ForgedTx ==
    Transaction(TRANSFER, <<>>,
                <<TransactionOutput(REWARD_AMOUNT, Recipient, None)>>, 0, Sender)

\* the record stored under block_hash gets another transaction list; its
\* header and its hash field stay as they are
alter_transactions(block_hash) ==
    /\ \E transactions \in {<<>>, <<ForgedTx>>} \ {blocks_db[block_hash].transactions} :
          blocks_db' = [blocks_db EXCEPT ![block_hash].transactions = transactions]
    /\ ret' = [op |-> "alter_transactions", arg |-> block_hash, value |-> None]
    /\ UNCHANGED <<backend, running,
                   last_block, stored_block_hashes, utxo_db, block_hashes,
                   unconfirmed_transactions, known_tx_ids, now, accepted>>

\* the record stored under block_hash gets the next nonce and the hash field
\* that compute_hash gives for it, without the proof-of-work loop
reseal_without_work(block_hash) ==
    /\ blocks_db[block_hash].hash = block_hash
    /\ LET b1 == [blocks_db[block_hash] EXCEPT !.header.nonce = @ + 1]
       IN blocks_db' = [blocks_db EXCEPT
                           ![block_hash] = [b1 EXCEPT !.hash = block_compute_hash(b1)]]
    /\ ret' = [op |-> "reseal_without_work", arg |-> block_hash, value |-> None]
    /\ UNCHANGED <<backend, running,
                   last_block, stored_block_hashes, utxo_db, block_hashes,
                   unconfirmed_transactions, known_tx_ids, now, accepted>>

\* the transactions the wallet helpers build: one data output, no inputs
DataTransactions ==
    {t \in SubmittedTransactions :
        t.tx_type \in {MEMORY, FEEDBACK} /\ t.inputs = <<>>}

NextTamper ==
    \/ \E transaction \in DataTransactions : add_transaction(transaction)
    \/ \E miner_address \in Miners : mine_block(miner_address)
    \/ \E block_hash \in DOMAIN blocks_db : alter_transactions(block_hash)
    \/ \E block_hash \in DOMAIN blocks_db : reseal_without_work(block_hash)
    \/ is_chain_valid

\* one Blockchain object over a store that is also written from outside
SpecTamper == Init /\ [][NextTamper]_vars

(***************************************************************************)
(* The pure functions Block.mine and _calculate_merkle_root, applied to    *)
(* arguments drawn from bounded sets.                                      *)
(***************************************************************************)
MaxIndex == 1         \* header.index of a block handed to mine
MaxTimestamp == 2     \* header.timestamp of a block handed to mine
MaxNonce == 3         \* header.nonce a block handed to mine starts from
MaxLeaves == 4        \* transactions handed to _calculate_merkle_root

MinedBlocks ==
    {[header |-> [BlockHeader(index, ZeroDigest, timestamp, EmptyRoot)
                    EXCEPT !.nonce = nonce],
      transactions |-> <<>>, hash |-> None] :
        index \in 0..MaxIndex, timestamp \in 0..MaxTimestamp, nonce \in 0..MaxNonce}

MineArguments ==
    {[fn |-> "mine", block |-> block, difficulty |-> difficulty] :
        block \in MinedBlocks, difficulty \in 0..MINE_DIFFICULTY}

Leaves ==
    {ForgedTx,
     Transaction(MEMORY, <<>>, <<TransactionOutput(0, Sender, "memory_data")>>,
                 0, Sender),
     Transaction(FEEDBACK, <<>>, <<TransactionOutput(0, Sender, "feedback_data")>>,
                 0, Sender)}

MerkleArguments ==
    {[fn |-> "_calculate_merkle_root", transactions |-> transactions] :
        transactions \in UNION {[1..n -> Leaves] : n \in 0..MaxLeaves}}

\* the ledger as __init__ leaves it, and one argument list waiting for its call
InitPure ==
    LET g == genesis_block(0)
    IN /\ blocks_db = Put(<<>>, g.hash, g)
       /\ last_block = g.hash
       /\ block_hashes = <<g.hash>>
       /\ stored_block_hashes = <<g.hash>>
       /\ utxo_db = _update_utxo_set(<<>>, g)
       /\ unconfirmed_transactions = <<>>
       /\ known_tx_ids = {}
       /\ now = 1
       /\ accepted = {}
       /\ running = <<>>
       /\ wallets = WalletDocuments
       /\ tasks = <<>>
       /\ \E arguments \in MineArguments \cup MerkleArguments :
             ret = [op |-> "arguments", arg |-> arguments, value |-> None]

\* block.mine(difficulty)
call_mine ==
    /\ ret.op = "arguments"
    /\ ret.arg.fn = "mine"
    /\ ret' = [op |-> "mine", arg |-> ret.arg,
                 value |-> mine(ret.arg.block, ret.arg.difficulty)]
    /\ UNCHANGED <<backend, running,
                   blocks_db, last_block, stored_block_hashes, utxo_db,
                   block_hashes, unconfirmed_transactions, known_tx_ids,
                   now, accepted>>

\* self._calculate_merkle_root(transactions)
call_calculate_merkle_root ==
    /\ ret.op = "arguments"
    /\ ret.arg.fn = "_calculate_merkle_root"
    /\ ret' = [op |-> "_calculate_merkle_root", arg |-> ret.arg,
                 value |-> _calculate_merkle_root(ret.arg.transactions)]
    /\ UNCHANGED <<backend, running,
                   blocks_db, last_block, stored_block_hashes, utxo_db,
                   block_hashes, unconfirmed_transactions, known_tx_ids,
                   now, accepted>>

NextPure == call_mine \/ call_calculate_merkle_root

SpecPure == InitPure /\ [][NextPure]_vars

(***************************************************************************)
(* Re-construction over the existing store, and writes that fail.  The     *)
(* blocks store is written by one batch (_store_block, lines 66-74); the   *)
(* utxo store is then written put by put (_update_utxo_set).  An exception *)
(* of a store write leaves _store_block and mine_block at that point.      *)
(***************************************************************************)
MaxClock == 3         \* clock value up to which a store write may fail

Raised == [raised |-> "Error"]

\* mine_block when the batch of _store_block is not written: the hash was
\* appended to self.block_hashes inside the with block (line 73)
mine_block_batch_fails(miner_address) ==
    /\ ~nothing_to_mine
    /\ Len(block_hashes) < MaxBlocks
    /\ now < MaxClock
    /\ LET block == candidate_block(miner_address)
       IN block_hashes' = Append(block_hashes, block.hash)
    /\ now' = now + 1
    /\ ret' = [op |-> "mine_block", arg |-> miner_address, value |-> Raised]
    /\ UNCHANGED <<backend, running,
                   blocks_db, last_block, stored_block_hashes, utxo_db,
                   unconfirmed_transactions, known_tx_ids, accepted>>

\* _update_utxo_set stopped after the first k transactions of the block
update_utxo_first(utxo, block, k) ==
    update_utxo_from(utxo, [block EXCEPT !.transactions = SubSeq(@, 1, k)], 1)

\* mine_block when the batch was written and a put of _update_utxo_set fails:
\* line 146, which clears the mempool, is not reached
mine_block_utxo_fails(miner_address) ==
    /\ ~nothing_to_mine
    /\ Len(block_hashes) < MaxBlocks
    /\ now < MaxClock
    /\ LET block == candidate_block(miner_address)
       IN /\ blocks_db' = Put(blocks_db, block.hash, block)
          /\ last_block' = block.hash
          /\ block_hashes' = Append(block_hashes, block.hash)
          /\ stored_block_hashes' = Append(block_hashes, block.hash)
          /\ \E k \in 0..(Len(block.transactions) - 1) :
                utxo_db' = update_utxo_first(utxo_db, block, k)
    /\ now' = now + 1
    /\ ret' = [op |-> "mine_block", arg |-> miner_address, value |-> Raised]
    /\ UNCHANGED <<backend, running,
                   unconfirmed_transactions, known_tx_ids, accepted>>

NextReinit ==
    \/ \E transaction \in DataTransactions : add_transaction(transaction)
    \/ \E miner_address \in Miners : mine_block(miner_address)
    \/ Restart

\* a store that outlives the objects constructed over it
SpecReinit == Init /\ [][NextReinit]_vars

NextAudit ==
    \/ \E transaction \in DataTransactions : add_transaction(transaction)
    \/ \E miner_address \in Miners : mine_block(miner_address)
    \/ Restart
    \/ is_chain_valid

\* the chain of an untampered store, validated at any time
SpecAudit == Init /\ [][NextAudit]_vars

NextStore ==
    \/ \E transaction \in DataTransactions : add_transaction(transaction)
    \/ \E miner_address \in Miners : mine_block(miner_address)
    \/ \E miner_address \in Miners : mine_block_batch_fails(miner_address)
    \/ \E miner_address \in Miners : mine_block_utxo_fails(miner_address)
    \/ Restart

\* the same, with store writes that may fail
SpecStore == Init /\ [][NextStore]_vars

(***************************************************************************)
(* Submissions beyond what the wallet helpers build: outputs with a        *)
(* positive amount, an input that references a key absent from the utxo    *)
(* store, and a tx_id handed to the constructor.                           *)
(*                                                                         *)
(* The read at blockchain.py:165 is self.utxo_db.Get(utxo_key) on a        *)
(* plyvel.DB.  The except clause at line 174 expects a store whose read of *)
(* an absent key raises KeyError (add_transaction above).  The store the   *)
(* module imports returns None for an absent key (as lines 34-35 and 98    *)
(* rely on), and None.decode() raises AttributeError, which no except      *)
(* clause of _validate_transaction or add_transaction catches.             *)
(***************************************************************************)
NoId == <<>>                        \* no tx_id handed to Transaction(...)

\* Transaction.__init__, lines 42-45: a tx_id that was handed in is kept
TransactionWithId(tx_id, tx_type, inputs, outputs, timestamp, sender_address) ==
    [Transaction(tx_type, inputs, outputs, timestamp, sender_address)
        EXCEPT !.tx_id = IF tx_id = NoId THEN @ ELSE tx_id]

\* a tx_id that is the hash of another transaction
OtherId == ForgedTx.tx_id

AbsentInput == TransactionInput(AbsentKey[1], AbsentKey[2], BadSig)

DirectOutputs(amount) == <<TransactionOutput(amount, Sender, None)>>

DirectTransactions ==
    {Transaction(tx_type, <<>>, DirectOutputs(amount), 0, Sender) :
        tx_type \in {MEMORY, FEEDBACK}, amount \in {0, 1}}
    \cup {Transaction(tx_type, <<AbsentInput>>, DirectOutputs(0), 0, Sender) :
             tx_type \in {TRANSFER, MEMORY, FEEDBACK}}
    \cup {TransactionWithId(OtherId, MEMORY, <<>>, DirectOutputs(0), 0, Sender)}

\* _validate_transaction, lines 161-165: the loop reaches an input whose key
\* is absent from the store
reaches_absent_key(transaction) ==
    /\ ~already_known(transaction)
    /\ transaction.tx_type # REWARD
    /\ \E i \in 1..Len(transaction.inputs) :
          /\ utxo_key(transaction.inputs[i].tx_id,
                      transaction.inputs[i].output_index) \notin DOMAIN utxo_db
          /\ \A j \in 1..(i - 1) : input_ok(transaction, transaction.inputs[j])

\* add_transaction when the read of the absent key returns None: the
\* exception leaves _validate_transaction and add_transaction
add_transaction_raises(transaction) ==
    /\ reaches_absent_key(transaction)
    /\ ret' = [op |-> "add_transaction:AttributeError", arg |-> transaction,
                 value |-> [raised |-> "AttributeError"]]
    /\ UNCHANGED <<backend, running,
                   blocks_db, last_block, stored_block_hashes, utxo_db,
                   block_hashes, unconfirmed_transactions, known_tx_ids,
                   now, accepted>>

NextDirect ==
    \/ \E transaction \in DirectTransactions : add_transaction(transaction)
    \/ \E transaction \in DirectTransactions : add_transaction_raises(transaction)
    \/ \E miner_address \in Miners : mine_block(miner_address)

\* one Blockchain object whose add_transaction is handed any Transaction
SpecDirect == Init /\ [][NextDirect]_vars

(***************************************************************************)
(* wallet.py and the /wallets endpoint of node.py.                         *)
(*                                                                         *)
(* A hex text is a sequence of characters: the digits 0..HexBase-1, and    *)
(* NonHex for any character that is no digit.  Two digits make a byte.  A  *)
(* key is KeyBytes bytes (32 in the code).  The curve is a toy group: the  *)
(* secret exponents are 1..Order-1 and the public point of k is            *)
(* k * Generator mod Order.  The signature of payload d under k is the     *)
(* number point + Order * d, which verifies under no other point or        *)
(* payload.                                                                *)
(***************************************************************************)
KeyBytes == 2         \* bytes of a key and of a signature
Order == 7            \* order of the group, a prime
Generator == 3        \* generator of the group
MaxText == 4          \* characters of a hex text handed to the wallet
Payloads == {0, 1}    \* the payloads that are signed

NonHex == HexBase
ByteBase == HexBase * HexBase

HexTexts == UNION {[1..n -> 0..NonHex] : n \in 0..MaxText}

\* binascii.unhexlify returns instead of raising
unhexlify_ok(text) ==
    /\ Len(text) % 2 = 0
    /\ \A i \in DOMAIN text : text[i] # NonHex

\* binascii.unhexlify
unhexlify(text) ==
    [i \in 1..(Len(text) \div 2) |-> text[2 * i - 1] * HexBase + text[2 * i]]

\* binascii.hexlify
hexlify(bytes) ==
    [i \in 1..(2 * Len(bytes)) |->
        IF i % 2 = 1 THEN bytes[(i + 1) \div 2] \div HexBase
                     ELSE bytes[i \div 2] % HexBase]

\* the big-endian number of a byte string
RECURSIVE string_to_number(_)
string_to_number(bytes) ==
    IF bytes = <<>>
    THEN 0
    ELSE string_to_number(SubSeq(bytes, 1, Len(bytes) - 1)) * ByteBase
         + bytes[Len(bytes)]

\* mutant: leading zero bytes are left out
number_to_string_short(n) ==
    IF n < ByteBase THEN <<n>> ELSE <<n \div ByteBase, n % ByteBase>>

\* the big-endian byte string, KeyBytes long, of a number
number_to_string(n) ==
    [i \in 1..KeyBytes |-> (n \div Pow(ByteBase, KeyBytes - i)) % ByteBase]

\* SigningKey.from_string and VerifyingKey.from_string return instead of raising
from_string_ok(bytes) ==
    /\ Len(bytes) = KeyBytes
    /\ string_to_number(bytes) \in 1..(Order - 1)

\* SigningKey.get_verifying_key
get_verifying_key(private_key) == (private_key * Generator) % Order

\* a Wallet object
WalletOf(private_key) ==
    [private_key |-> private_key, public_key |-> get_verifying_key(private_key)]

\* Wallet.__init__: the wallets it can yield, or the exception it raises
Wallet(private_key) ==
    IF private_key.given /\ private_key.text # <<>>
    THEN IF unhexlify_ok(private_key.text)
            /\ from_string_ok(unhexlify(private_key.text))
         THEN {WalletOf(string_to_number(unhexlify(private_key.text)))}
         ELSE {[raised |-> "Error"]}
    ELSE {WalletOf(k) : k \in 1..(Order - 1)}

\* Wallet.address
wallet_address(wallet) ==
    <<"ripemd160", <<"sha256", number_to_string(wallet.public_key)>>>>

\* Wallet.export_private_key
export_private_key(wallet) == hexlify(number_to_string(wallet.private_key))

\* Wallet.sign
sign(wallet, data) == hexlify(number_to_string(wallet.public_key + Order * data))

\* Wallet.verify_signature: the try block returns True
verify_returns_true(public_key_hex, data, signature_hex) ==
    /\ unhexlify_ok(public_key_hex)
    /\ from_string_ok(unhexlify(public_key_hex))
    /\ unhexlify_ok(signature_hex)
    /\ Len(unhexlify(signature_hex)) = KeyBytes
    /\ string_to_number(unhexlify(signature_hex))
          = string_to_number(unhexlify(public_key_hex)) + Order * data

\* Wallet.verify_signature: every exception of the try block gives False
verify_signature(public_key_hex, data, signature_hex) ==
    IF verify_returns_true(public_key_hex, data, signature_hex)
    THEN TRUE
    ELSE FALSE

\* create_wallet of node.py: the responses it can give
create_wallet(private_key) ==
    LET created == IF private_key.given /\ private_key.text # <<>>
                   THEN Wallet(private_key)
                   ELSE Wallet([given |-> FALSE, text |-> <<>>])
    IN {IF "raised" \in DOMAIN wallet
        THEN [status |-> 400]
        ELSE [status |-> 201, address |-> wallet_address(wallet),
              private_key |-> export_private_key(wallet)] : wallet \in created}

\* the key arguments: none, or a hex text
KeyArguments ==
    {[given |-> FALSE, text |-> <<>>]}
    \cup {[given |-> TRUE, text |-> text] : text \in HexTexts}

\* public key texts: of two wallets, empty, with a character that is no
\* digit, too short, and of a number that is no point
PublicKeyTexts ==
    {hexlify(number_to_string(WalletOf(k).public_key)) : k \in {1, 2}}
    \cup {<<>>, <<NonHex, 0, 0, 1>>, <<0, 1>>, hexlify(number_to_string(0))}

\* signature texts: of two wallets over each payload, empty, with a character
\* that is no digit, and too short
SignatureTexts ==
    {sign(WalletOf(k), data) : k \in {1, 2}, data \in Payloads}
    \cup {<<>>, <<NonHex>>, <<0, 1>>}

\* the stored utxo entries handed to _verify_transaction_input: the output
\* as TransactionOutput.dict() gives it, and with a public_key field
StoredEntries ==
    LET entry(output) == [tx_id |-> ForgedTx.tx_id, output_index |-> 0,
                          output |-> output, block_hash |-> ZeroDigest,
                          spent |-> FALSE]
    IN {entry(ForgedTx.outputs[1])}
       \cup {entry([amount |-> REWARD_AMOUNT, address |-> Recipient,
                    data |-> None, public_key |-> text]) :
                text \in PublicKeyTexts}

WalletArguments ==
    {[fn |-> "Wallet", private_key |-> private_key] :
        private_key \in KeyArguments}
    \cup {[fn |-> "create_wallet", private_key |-> private_key] :
             private_key \in KeyArguments}
    \cup {[fn |-> "verify_signature", public_key_hex |-> public_key_hex,
           data |-> data, signature_hex |-> signature_hex] :
             public_key_hex \in PublicKeyTexts, data \in Payloads,
             signature_hex \in SignatureTexts}
    \cup {[fn |-> "_verify_transaction_input", transaction |-> ForgedTx,
           tx_input |-> TransactionInput(ForgedTx.tx_id, 0, signature_hex),
           utxo_data |-> utxo_data] :
             signature_hex \in SignatureTexts, utxo_data \in StoredEntries}

\* the ledger as __init__ leaves it, and one argument list waiting for its call
InitWallet ==
    LET g == genesis_block(0)
    IN /\ blocks_db = Put(<<>>, g.hash, g)
       /\ last_block = g.hash
       /\ block_hashes = <<g.hash>>
       /\ stored_block_hashes = <<g.hash>>
       /\ utxo_db = _update_utxo_set(<<>>, g)
       /\ unconfirmed_transactions = <<>>
       /\ known_tx_ids = {}
       /\ now = 1
       /\ accepted = {}
       /\ running = <<>>
       /\ wallets = WalletDocuments
       /\ tasks = <<>>
       /\ \E arguments \in WalletArguments :
             ret = [op |-> "arguments", arg |-> arguments, value |-> None]

\* Wallet(private_key=...)
call_Wallet ==
    /\ ret.op = "arguments"
    /\ ret.arg.fn = "Wallet"
    /\ \E wallet \in Wallet(ret.arg.private_key) :
          ret' = [op |-> "Wallet", arg |-> ret.arg, value |-> wallet]
    /\ UNCHANGED <<backend, running,
                   blocks_db, last_block, stored_block_hashes, utxo_db,
                   block_hashes, unconfirmed_transactions, known_tx_ids,
                   now, accepted>>

\* Wallet(private_key=wallet.export_private_key()) for the wallet just made
call_import_exported ==
    /\ ret.op = "Wallet"
    /\ "private_key" \in DOMAIN ret.value
    /\ \E wallet \in Wallet([given |-> TRUE,
                             text |-> export_private_key(ret.value)]) :
          ret' = [op |-> "import_exported", arg |-> ret.value, value |-> wallet]
    /\ UNCHANGED <<backend, running,
                   blocks_db, last_block, stored_block_hashes, utxo_db,
                   block_hashes, unconfirmed_transactions, known_tx_ids,
                   now, accepted>>

\* POST /wallets
call_create_wallet ==
    /\ ret.op = "arguments"
    /\ ret.arg.fn = "create_wallet"
    /\ \E response \in create_wallet(ret.arg.private_key) :
          ret' = [op |-> "create_wallet", arg |-> ret.arg, value |-> response]
    /\ UNCHANGED <<backend, running,
                   blocks_db, last_block, stored_block_hashes, utxo_db,
                   block_hashes, unconfirmed_transactions, known_tx_ids,
                   now, accepted>>

\* Wallet.verify_signature(public_key_hex, data, signature_hex)
call_verify_signature ==
    /\ ret.op = "arguments"
    /\ ret.arg.fn = "verify_signature"
    /\ ret' = [op |-> "verify_signature", arg |-> ret.arg,
                 value |-> verify_signature(ret.arg.public_key_hex, ret.arg.data,
                                            ret.arg.signature_hex)]
    /\ UNCHANGED <<backend, running,
                   blocks_db, last_block, stored_block_hashes, utxo_db,
                   block_hashes, unconfirmed_transactions, known_tx_ids,
                   now, accepted>>

\* self._verify_transaction_input(transaction, tx_input, utxo_data)
call_verify_transaction_input ==
    /\ ret.op = "arguments"
    /\ ret.arg.fn = "_verify_transaction_input"
    /\ ret' = [op |-> "_verify_transaction_input", arg |-> ret.arg,
                 value |-> _verify_transaction_input(ret.arg.transaction,
                                                     ret.arg.tx_input,
                                                     ret.arg.utxo_data)]
    /\ UNCHANGED <<backend, running,
                   blocks_db, last_block, stored_block_hashes, utxo_db,
                   block_hashes, unconfirmed_transactions, known_tx_ids,
                   now, accepted>>

NextWallet ==
    \/ call_Wallet
    \/ call_import_exported
    \/ call_create_wallet
    \/ call_verify_signature
    \/ call_verify_transaction_input

SpecWallet == InitWallet /\ [][NextWallet]_vars

(***************************************************************************)
(* Transactions built by Wallet.create_transaction: one output of the      *)
(* amount the caller names, no inputs.  The amount is a float that neither *)
(* TransactionOutput nor create_transaction restricts.                     *)
(***************************************************************************)
MinAmount == -1

\* Wallet.create_transaction for the wallet of the sender, at time 0
create_transaction(recipient_address, amount, tx_type, data) ==
    Transaction(tx_type, <<>>,
                <<TransactionOutput(amount, recipient_address, data)>>, 0, Sender)

WalletTransactions ==
    {create_transaction(Recipient, amount, tx_type, None) :
        amount \in MinAmount..0, tx_type \in {TRANSFER, MEMORY, FEEDBACK}}

NextAmounts ==
    \/ \E transaction \in WalletTransactions : add_transaction(transaction)
    \/ \E miner_address \in Miners : mine_block(miner_address)
    \/ \E address \in Addresses : get_balance(address)

\* one object that is handed what create_transaction builds
SpecAmounts == Init /\ [][NextAmounts]_vars

(***************************************************************************)
(* Transactions whose input references an output of a transaction that is  *)
(* not committed yet.  A tx_id is the hash of the transaction's content,   *)
(* so a caller knows it before the transaction is submitted.               *)
(***************************************************************************)
\* the data transactions whose outputs are referenced, made at time 0
LaterTransactions ==
    {Transaction(tx_type, <<>>, DirectOutputs(0), 0, Sender) :
        tx_type \in {MEMORY, FEEDBACK}}

\* a transaction with one input that references output 0 of the transaction
EarlySpender(tx_type, transaction) ==
    Transaction(tx_type, <<TransactionInput(transaction.tx_id, 0, BadSig)>>,
                <<TransactionOutput(0, Recipient, None)>>, 0, Sender)

ForwardTransactions ==
    LaterTransactions
    \cup {EarlySpender(tx_type, transaction) :
             tx_type \in {TRANSFER, REWARD}, transaction \in LaterTransactions}

NextForward ==
    \/ \E transaction \in ForwardTransactions : add_transaction(transaction)
    \/ \E miner_address \in Miners : mine_block(miner_address)

\* one object that is handed transactions in any order
SpecForward == Init /\ [][NextForward]_vars

(***************************************************************************)
(* Block.mine step by step: one step per evaluation of the while test.     *)
(* hexdigest() has a fixed number of digits (64); the digests of the model *)
(* have DigestLength, so '0' * difficulty with a greater difficulty is the *)
(* prefix of no digest.                                                    *)
(***************************************************************************)
DigestLength == MINE_DIFFICULTY

\* the attempts after which every value of a digest was tried
SearchBound == Pow(HexBase, DigestLength)

\* the steps of a search that are followed
MaxAttempts == SearchBound + 1

SearchArguments ==
    {[fn |-> "mine", block |-> block, difficulty |-> difficulty] :
        block \in MinedBlocks, difficulty \in 0..(DigestLength + 1)}

\* the ledger as __init__ leaves it, and a block waiting for mine
InitSearch ==
    LET g == genesis_block(0)
    IN /\ blocks_db = Put(<<>>, g.hash, g)
       /\ last_block = g.hash
       /\ block_hashes = <<g.hash>>
       /\ stored_block_hashes = <<g.hash>>
       /\ utxo_db = _update_utxo_set(<<>>, g)
       /\ unconfirmed_transactions = <<>>
       /\ known_tx_ids = {}
       /\ now = 1
       /\ accepted = {}
       /\ running = <<>>
       /\ wallets = WalletDocuments
       /\ tasks = <<>>
       /\ \E arguments \in SearchArguments :
             ret = [op |-> "arguments", arg |-> arguments, value |-> None]

\* the nonce increments of the search so far
Attempts == ret.value.header.nonce - ret.arg.block.header.nonce

\* Block.mine, lines 45-46: the first hash
mine_enter ==
    /\ ret.op = "arguments"
    /\ ret' = [op |-> "mine:while", arg |-> ret.arg,
                 value |-> [ret.arg.block EXCEPT
                              !.hash = block_compute_hash(ret.arg.block)]]
    /\ UNCHANGED <<backend, running,
                   blocks_db, last_block, stored_block_hashes, utxo_db,
                   block_hashes, unconfirmed_transactions, known_tx_ids,
                   now, accepted>>

\* Block.mine, lines 48-50: the test fails, the nonce is increased and the
\* hash computed again
mine_attempt ==
    /\ ret.op = "mine:while"
    /\ ~StartsWithZeros(ret.value.hash, ret.arg.difficulty)
    /\ Attempts < MaxAttempts
    /\ LET b1 == [ret.value EXCEPT !.header.nonce = @ + 1]
       IN ret' = [ret EXCEPT !.value = [b1 EXCEPT !.hash = block_compute_hash(b1)]]
    /\ UNCHANGED <<backend, running,
                   blocks_db, last_block, stored_block_hashes, utxo_db,
                   block_hashes, unconfirmed_transactions, known_tx_ids,
                   now, accepted>>

\* Block.mine, line 48: the test holds and mine returns
mine_return ==
    /\ ret.op = "mine:while"
    /\ StartsWithZeros(ret.value.hash, ret.arg.difficulty)
    /\ ret' = [ret EXCEPT !.op = "mine"]
    /\ UNCHANGED <<backend, running,
                   blocks_db, last_block, stored_block_hashes, utxo_db,
                   block_hashes, unconfirmed_transactions, known_tx_ids,
                   now, accepted>>

NextSearch ==
    \/ mine_enter
    \/ mine_attempt
    \/ mine_return

SpecSearch == InitSearch /\ [][NextSearch]_vars

(***************************************************************************)
(* Calls on one Blockchain object from several threads.  The class holds   *)
(* no lock, so a thread can be suspended between the statements of         *)
(* mine_block: after the candidate block is built and sealed (lines        *)
(* 116-140), after it is stored (line 143), and before the mempool is      *)
(* cleared (line 146).  The endpoints of node.py call the object from one  *)
(* event loop, where calls do not overlap; the steps below are those of    *)
(* callers that use threads.                                               *)
(***************************************************************************)
Threads == {1, 2}

\* the calls of the other threads are left as they are
Without(thread) == [t \in DOMAIN running \ {thread} |-> running[t]]

\* mine_block, lines 116-140: the empty-mempool return, or the candidate
\* block over the head and the copy of the mempool read at this point
mine_block_begin(thread, miner_address) ==
    /\ thread \notin DOMAIN running
    /\ IF nothing_to_mine
       THEN /\ ret' = [op |-> "mine_block", arg |-> miner_address,
                         value |-> NoBlock]
            /\ UNCHANGED <<backend, running,
                           blocks_db, last_block, stored_block_hashes,
                           utxo_db, block_hashes, unconfirmed_transactions,
                           known_tx_ids, now, accepted>>
       ELSE /\ Len(block_hashes) + Cardinality(DOMAIN running) < MaxBlocks
            /\ running' = Put(running, thread,
                              [miner_address |-> miner_address,
                               block |-> candidate_block(miner_address),
                               stored |-> FALSE])
            /\ now' = now + 1
            /\ UNCHANGED <<backend, blocks_db, last_block, stored_block_hashes,
                           utxo_db, block_hashes, unconfirmed_transactions,
                           known_tx_ids, ret, accepted>>

\* mine_block, line 143: self._store_block(block)
mine_block_store(thread) ==
    /\ thread \in DOMAIN running
    /\ ~running[thread].stored
    /\ _store_block(running[thread].block)
    /\ running' = [running EXCEPT ![thread].stored = TRUE]
    /\ UNCHANGED <<backend, unconfirmed_transactions, known_tx_ids, now, ret,
                   accepted>>

\* mine_block, lines 146-148: the mempool is cleared and the block returned
mine_block_return(thread) ==
    /\ thread \in DOMAIN running
    /\ running[thread].stored
    /\ unconfirmed_transactions' = <<>>
    /\ ret' = [op |-> "mine_block", arg |-> running[thread].miner_address,
                 value |-> running[thread].block]
    /\ running' = Without(thread)
    /\ UNCHANGED <<backend, blocks_db, last_block, stored_block_hashes, utxo_db,
                   block_hashes, known_tx_ids, now, accepted>>

NextThreads ==
    \/ \E transaction \in DataTransactions : add_transaction(transaction)
    \/ \E thread \in Threads, miner_address \in Miners :
          mine_block_begin(thread, miner_address)
    \/ \E thread \in Threads : mine_block_store(thread)
    \/ \E thread \in Threads : mine_block_return(thread)

\* one object called from two threads
SpecThreads == Init /\ [][NextThreads]_vars

(***************************************************************************)
(* backend: BlockchainClient.submit_transaction over the wallets           *)
(* collection.  The coroutine is suspended at its awaits; a step is the    *)
(* database operation of one await with the code that follows it up to the *)
(* next await.  Wallet.find_one gives the task its own copy of a document; *)
(* save() writes the copy over the stored document (Wallet.Settings names  *)
(* the collection and its indexes only).                                   *)
(***************************************************************************)
NoDocument == <<>>       \* the None of find_one
UnknownAddress == "W0"   \* an address without a wallet document
Amounts == {0, 1}
TxTypes == {"transfer", "reward"}

\* Wallet.find_one(Wallet.address == address)
find_one(address) ==
    IF address \in DOMAIN wallets
    THEN [address |-> address, balance |-> wallets[address].balance,
          nonce |-> wallets[address].nonce]
    ELSE NoDocument

\* wallet.save(): the stored document becomes the copy
save(collection, wallet) ==
    [collection EXCEPT ![wallet.address] =
        [balance |-> wallet.balance, nonce |-> wallet.nonce]]

\* lines 172-174 on the copy of the sender
debited(wallet, amount) ==
    [wallet EXCEPT !.balance = @ - amount, !.nonce = @ + 1]

\* lines 177-179 on the copy of the recipient
credited(wallet, amount, tx_type) ==
    [wallet EXCEPT !.balance = @ + amount,
                   !.nonce = IF tx_type = "reward" THEN @ + 1 ELSE @]

\* lines 205-206 on the copy of the sender
sender_reverted(wallet, amount) ==
    [wallet EXCEPT !.balance = @ + amount, !.nonce = @ - 1]

\* lines 209-211 on the copy of the recipient
recipient_reverted(wallet, amount, tx_type) ==
    [wallet EXCEPT !.balance = @ - amount,
                   !.nonce = IF tx_type = "reward" THEN @ - 1 ELSE @]

\* the call of the task ends: it returns, or raises
ended(task, outcome, value) ==
    /\ ret' = [op |-> outcome,
                 arg |-> [from_address |-> tasks[task].from_address,
                          to_address |-> tasks[task].to_address,
                          amount |-> tasks[task].amount,
                          tx_type |-> tasks[task].tx_type],
                 value |-> value]
    /\ tasks' = [t \in DOMAIN tasks \ {task} |-> tasks[t]]

\* lines 138-142: the amount check and the read of the sender, for the
\* requests that arrive before any request was answered
submit_begin(task, from_address, to_address, amount, tx_type) ==
    /\ task \notin DOMAIN tasks
    /\ ret.op = "__init__"
    /\ IF amount <= 0
       THEN /\ ret' = [op |-> "submit_transaction:raised",
                         arg |-> [from_address |-> from_address,
                                  to_address |-> to_address, amount |-> amount,
                                  tx_type |-> tx_type],
                         value |-> "ValueError"]
            /\ UNCHANGED <<ledger, wallets, tasks>>
       ELSE /\ tasks' = Put(tasks, task,
                            [pc |-> "sender_read", from_address |-> from_address,
                             to_address |-> to_address, amount |-> amount,
                             tx_type |-> tx_type,
                             from_wallet |-> find_one(from_address),
                             to_wallet |-> NoDocument])
            /\ UNCHANGED <<ledger, wallets, ret>>

\* lines 143-151: the sender and balance checks and the read of the recipient
submit_find_recipient(task) ==
    /\ task \in DOMAIN tasks
    /\ tasks[task].pc = "sender_read"
    /\ IF tasks[task].from_wallet = NoDocument
       THEN ended(task, "submit_transaction:raised", "ValueError")
       ELSE IF /\ tasks[task].tx_type # "reward"
               /\ tasks[task].from_wallet.balance < tasks[task].amount
       THEN ended(task, "submit_transaction:raised", "ValueError")
       ELSE /\ tasks' = [tasks EXCEPT ![task].pc = "recipient_read",
                                      ![task].to_wallet =
                                          find_one(tasks[task].to_address)]
            /\ UNCHANGED ret
    /\ UNCHANGED <<ledger, wallets>>

\* lines 152-180 up to the first save: without a recipient the call raises
\* (Wallet(address=..., balance=0) lacks the required private_key; otherwise
\* line 157); a transfer debits the sender and saves it; a reward credits
\* the recipient and saves it
submit_first_save(task) ==
    /\ task \in DOMAIN tasks
    /\ tasks[task].pc = "recipient_read"
    /\ LET call == tasks[task]
       IN IF call.to_wallet = NoDocument
          THEN /\ ended(task, "submit_transaction:raised",
                        IF call.tx_type = "reward" THEN "ValidationError"
                                                   ELSE "ValueError")
               /\ UNCHANGED wallets
          ELSE IF call.tx_type # "reward"
          THEN /\ wallets' = save(wallets, debited(call.from_wallet, call.amount))
               /\ tasks' = [tasks EXCEPT
                              ![task].pc = "sender_saved",
                              ![task].from_wallet = debited(@, call.amount)]
               /\ UNCHANGED ret
          ELSE /\ wallets' = save(wallets, credited(call.to_wallet, call.amount,
                                                    call.tx_type))
               /\ tasks' = [tasks EXCEPT
                              ![task].pc = "recipient_saved",
                              ![task].to_wallet =
                                  credited(@, call.amount, call.tx_type)]
               /\ UNCHANGED ret
    /\ UNCHANGED ledger

\* lines 177-180 of a transfer: the recipient is credited and saved
submit_save_recipient(task) ==
    /\ task \in DOMAIN tasks
    /\ tasks[task].pc = "sender_saved"
    /\ LET call == tasks[task]
       IN /\ wallets' = save(wallets, credited(call.to_wallet, call.amount,
                                               call.tx_type))
          /\ tasks' = [tasks EXCEPT
                         ![task].pc = "recipient_saved",
                         ![task].to_wallet = credited(@, call.amount, call.tx_type)]
    /\ UNCHANGED <<ledger, ret>>

\* lines 183-200: tx.create() and the returned dict
submit_return(task) ==
    /\ task \in DOMAIN tasks
    /\ tasks[task].pc = "recipient_saved"
    /\ ended(task, "submit_transaction", "completed")
    /\ UNCHANGED <<ledger, wallets>>

\* lines 161-169 raise: Transaction declares tx_hash as a required field and
\* the call does not pass it.  The handler then reads tx, which was never
\* bound, at line 204, and the call ends with that error before any revert
submit_construct_raises(task) ==
    /\ task \in DOMAIN tasks
    /\ tasks[task].pc = "recipient_read"
    /\ tasks[task].to_wallet # NoDocument
    /\ ended(task, "submit_transaction:raised", "UnboundLocalError")
    /\ UNCHANGED <<ledger, wallets>>

\* the copies of the task when the await it is about to make raises: the
\* statements before that await have run
sender_at_failure(call) ==
    IF call.pc = "recipient_read" /\ call.tx_type # "reward"
    THEN debited(call.from_wallet, call.amount)
    ELSE call.from_wallet

recipient_at_failure(call) ==
    IF \/ call.pc = "sender_saved"
       \/ call.pc = "recipient_read" /\ call.tx_type = "reward"
    THEN credited(call.to_wallet, call.amount, call.tx_type)
    ELSE call.to_wallet

\* a save of lines 175 or 180, or the create of line 184, raises, and the
\* handler runs up to its first save: lines 204-207 for a transfer, lines
\* 209-215 for a reward
submit_save_raises(task) ==
    /\ task \in DOMAIN tasks
    /\ tasks[task].pc \in {"recipient_read", "sender_saved", "recipient_saved"}
    /\ tasks[task].to_wallet # NoDocument
    /\ LET call == tasks[task]
           from_wallet == sender_at_failure(call)
           to_wallet == recipient_at_failure(call)
       IN IF call.tx_type # "reward"
          THEN /\ wallets' = save(wallets, sender_reverted(from_wallet, call.amount))
               /\ tasks' = [tasks EXCEPT
                              ![task].pc = "sender_reverted",
                              ![task].from_wallet =
                                  sender_reverted(from_wallet, call.amount),
                              ![task].to_wallet = to_wallet]
               /\ UNCHANGED ret
          ELSE /\ wallets' = save(wallets, recipient_reverted(to_wallet, call.amount,
                                                              call.tx_type))
               /\ ended(task, "submit_transaction:raised", "Error")
    /\ UNCHANGED ledger

\* lines 209-215 of a transfer: the recipient is reverted and saved, and the
\* exception raised again
submit_revert_recipient(task) ==
    /\ task \in DOMAIN tasks
    /\ tasks[task].pc = "sender_reverted"
    /\ wallets' = save(wallets, recipient_reverted(tasks[task].to_wallet,
                                                   tasks[task].amount,
                                                   tasks[task].tx_type))
    /\ ended(task, "submit_transaction:raised", "Error")
    /\ UNCHANGED ledger

ClientAddresses == DOMAIN WalletDocuments \cup {UnknownAddress}

\* concurrent requests: two tasks on the event loop, each a transfer from one
\* address to another; no operation fails but the constructor
ClientTasks == {1, 2}

NextClient ==
    \/ \E task \in ClientTasks, from_address \in ClientAddresses, amount \in Amounts :
          \E to_address \in ClientAddresses \ {from_address} :
              submit_begin(task, from_address, to_address, amount, "transfer")
    \/ \E task \in ClientTasks : submit_find_recipient(task)
    \/ \E task \in ClientTasks : submit_first_save(task)
    \/ \E task \in ClientTasks : submit_save_recipient(task)
    \/ \E task \in ClientTasks : submit_return(task)
    \/ \E task \in ClientTasks : submit_construct_raises(task)

SpecClient == Init /\ [][NextClient]_vars

\* one request at a time, whose saves and create can raise
NextFailing ==
    \/ \E from_address \in ClientAddresses, to_address \in ClientAddresses,
          amount \in Amounts, tx_type \in TxTypes :
          submit_begin(1, from_address, to_address, amount, tx_type)
    \/ submit_find_recipient(1)
    \/ submit_first_save(1)
    \/ submit_save_recipient(1)
    \/ submit_return(1)
    \/ submit_construct_raises(1)
    \/ submit_save_raises(1)
    \/ submit_revert_recipient(1)

SpecFailing == Init /\ [][NextFailing]_vars

(***************************************************************************)
(* Vocabulary of the properties                                            *)
(***************************************************************************)
Range(f) == {f[i] : i \in DOMAIN f}

Called(op) == ret'.op = op

CommittedTransactions ==
    UNION {Range(blocks_db[block_hashes[i]].transactions) : i \in DOMAIN block_hashes}

Refs(tx) ==
    {utxo_key(tx.inputs[i].tx_id, tx.inputs[i].output_index) : i \in DOMAIN tx.inputs}

Copies(seq, x) == Cardinality({i \in DOMAIN seq : seq[i] = x})

(***************************************************************************)
(* C1: once add_transaction has accepted T, every later add_transaction(T) *)
(* on the same object returns False and the mempool holds at most one copy *)
(* of T, whether or not T was mined in between.                            *)
(***************************************************************************)
C1_ResubmissionRejected ==
    [][(Called("add_transaction") /\ ret'.arg \in accepted)
          => /\ ret'.value = FALSE
             /\ Copies(unconfirmed_transactions', ret'.arg) <= 1]_vars

\* T was accepted, mined, submitted again and rejected
C1_Witness ==
    /\ ret.op = "add_transaction"
    /\ ret.value = FALSE
    /\ ret.arg \in accepted
    /\ ret.arg \in CommittedTransactions
    /\ ret.arg \notin Range(unconfirmed_transactions)

(***************************************************************************)
(* C2: over the mempool and all committed blocks together, no UTXO key is  *)
(* referenced by the inputs of two distinct accepted transactions, nor     *)
(* twice by one transaction.                                               *)
(***************************************************************************)
HeldTransactions == Range(unconfirmed_transactions) \cup CommittedTransactions

C2_UtxoConsumedAtMostOnce ==
    /\ \A t1, t2 \in HeldTransactions :
          t1 # t2 => (Refs(t1) \cap Refs(t2) \cap DOMAIN utxo_db) = {}
    /\ \A t \in HeldTransactions :
          \A i, j \in DOMAIN t.inputs :
             (i # j /\ utxo_key(t.inputs[i].tx_id, t.inputs[i].output_index)
                          \in DOMAIN utxo_db)
                => utxo_key(t.inputs[i].tx_id, t.inputs[i].output_index)
                   # utxo_key(t.inputs[j].tx_id, t.inputs[j].output_index)

(***************************************************************************)
(* C3: once a UTXO entry has spent = true, every later add_transaction     *)
(* with a transaction of any type that has an input referencing the entry  *)
(* returns False.                                                          *)
(***************************************************************************)
SpentKeys == {k \in DOMAIN utxo_db : utxo_db[k].spent}

C3_SpentNeverReferenced ==
    [][(Called("add_transaction") /\ Refs(ret'.arg) \cap SpentKeys # {})
          => ret'.value = FALSE]_vars

(***************************************************************************)
(* C4: add_transaction rejects every TRANSFER whose referenced input       *)
(* amounts sum to less than its output amounts, and the transaction does   *)
(* not enter the mempool; in particular a TRANSFER of B + 1 built by the   *)
(* wallet (no inputs) whose balance is B.                                  *)
(***************************************************************************)
\* the amounts of the stored outputs the inputs of tx reference
ReferencedAmount(tx) ==
    SumSeq([i \in DOMAIN tx.inputs |->
              LET k == utxo_key(tx.inputs[i].tx_id, tx.inputs[i].output_index)
              IN IF k \in DOMAIN utxo_db THEN utxo_db[k].output.amount ELSE 0],
           Len(tx.inputs))

C4_InsufficientTransferRejected ==
    [][(/\ Called("add_transaction")
        /\ ret'.arg.tx_type = TRANSFER
        /\ ReferencedAmount(ret'.arg) < output_sum(ret'.arg))
          => /\ ret'.value = FALSE
             /\ unconfirmed_transactions' = unconfirmed_transactions
             /\ ret'.arg \notin Range(unconfirmed_transactions')]_vars

\* the wallet holds B = 50 and its TRANSFER of B + 1 was rejected
C4_Witness ==
    /\ ret.op = "add_transaction"
    /\ ret.value = FALSE
    /\ ret.arg.tx_type = TRANSFER
    /\ ret.arg.inputs = <<>>
    /\ balance_of(utxo_db, ret.arg.sender_address) = REWARD_AMOUNT
    /\ ret.arg.outputs[1].amount = balance_of(utxo_db, ret.arg.sender_address) + 1
    /\ ret.arg \notin Range(unconfirmed_transactions)

(***************************************************************************)
(* C5: add_transaction decides on the signature value: a not-yet-known    *)
(* non-REWARD transaction whose inputs all reference unspent outputs and   *)
(* cover its outputs is rejected when some input is not signed by the      *)
(* owner of the output it references, and accepted when every input is.    *)
(***************************************************************************)
ValidSignature(tx_input) ==
    tx_input.signature
       = utxo_db[utxo_key(tx_input.tx_id, tx_input.output_index)].output.address

InputsUnspent(tx) ==
    /\ tx.inputs # <<>>
    /\ \A k \in Refs(tx) : k \in DOMAIN utxo_db /\ ~utxo_db[k].spent

CorrectlySigned(tx) == \A i \in DOMAIN tx.inputs : ValidSignature(tx.inputs[i])

C5_SignatureDecides ==
    [][(/\ Called("add_transaction")
        /\ ret'.arg.tx_type # REWARD
        /\ ret'.arg.tx_id \notin known_tx_ids
        /\ InputsUnspent(ret'.arg)
        /\ ReferencedAmount(ret'.arg) >= output_sum(ret'.arg))
          => (ret'.value = TRUE <=> CorrectlySigned(ret'.arg))]_vars

(***************************************************************************)
(* C6: a not-yet-known TRANSFER whose inputs all reference unspent outputs *)
(* committed by an earlier block, signed by their owners, and cover its    *)
(* outputs is accepted: it joins the mempool and its tx_id is recorded in  *)
(* known_tx_ids.                                                           *)
(***************************************************************************)
C6_SpendingTransferAccepted ==
    [][(/\ Called("add_transaction")
        /\ ret'.arg.tx_type = TRANSFER
        /\ ret'.arg.tx_id \notin known_tx_ids
        /\ InputsUnspent(ret'.arg)
        /\ CorrectlySigned(ret'.arg)
        /\ ReferencedAmount(ret'.arg) >= output_sum(ret'.arg))
          => /\ ret'.value = TRUE
             /\ ret'.arg \in Range(unconfirmed_transactions')
             /\ ret'.arg.tx_id \in known_tx_ids']_vars

(***************************************************************************)
(* C7: mine_block on an empty mempool returns no block and leaves the      *)
(* chain, the UTXO set, the mempool and known_tx_ids unchanged.            *)
(***************************************************************************)
C7_EmptyMempoolNoOp ==
    [][(Called("mine_block") /\ unconfirmed_transactions = <<>>)
          => /\ UNCHANGED <<blocks_db, last_block, stored_block_hashes,
                            block_hashes, utxo_db, unconfirmed_transactions,
                            known_tx_ids>>
             /\ ret'.value = NoBlock]_vars

\* mine_block ran on an empty mempool of a chain that has a mined block
C7_Witness ==
    /\ ret.op = "mine_block"
    /\ ret.value = NoBlock
    /\ unconfirmed_transactions = <<>>
    /\ Len(block_hashes) = 2

(***************************************************************************)
(* C8: mine_block on a mempool of n >= 1 transactions commits a block with *)
(* index = head.index + 1, previous_hash = head.hash and n + 1             *)
(* transactions: the reward transaction, then the mempool in submission    *)
(* order.                                                                  *)
(***************************************************************************)
C8_BlockAssembly ==
    [][(Called("mine_block") /\ unconfirmed_transactions # <<>>)
          => LET block == ret'.value
                 head == blocks_db[last_block]
                 n == Len(unconfirmed_transactions)
             IN /\ block.header.index = head.header.index + 1
                /\ block.header.previous_hash = head.hash
                /\ Len(block.transactions) = n + 1
                /\ block.transactions[1].tx_type = REWARD
                /\ block.transactions[1].inputs = <<>>
                /\ block.transactions[1].outputs
                      = <<TransactionOutput(REWARD_AMOUNT, ret'.arg, None)>>
                /\ SubSeq(block.transactions, 2, n + 1) = unconfirmed_transactions
                /\ last_block' = block.hash
                /\ blocks_db'[block.hash] = block]_vars

\* a block with the reward and two mempool transactions was committed
C8_Witness ==
    /\ ret.op = "mine_block"
    /\ ret.value # NoBlock
    /\ Len(ret.value.transactions) = 3
    /\ ret.value.transactions[2] # ret.value.transactions[3]
    /\ last_block = ret.value.hash

(***************************************************************************)
(* C9: after a successful mine_block(miner_address) whose mempool held     *)
(* only zero-amount MEMORY/FEEDBACK transactions, the balance of the miner *)
(* is exactly the fixed reward higher and every other balance is           *)
(* unchanged.                                                              *)
(***************************************************************************)
OnlyZeroAmountData(txs) ==
    \A i \in DOMAIN txs :
       /\ txs[i].tx_type \in {MEMORY, FEEDBACK}
       /\ \A o \in DOMAIN txs[i].outputs : txs[i].outputs[o].amount = 0

RECURSIVE UnspentTotal(_, _)
UnspentTotal(keys, address) ==
    IF keys = {}
    THEN 0
    ELSE LET k == CHOOSE x \in keys : TRUE
             e == utxo_db[k]
         IN (IF e.spent = FALSE /\ e.output.address = address
             THEN e.output.amount ELSE 0)
            + UnspentTotal(keys \ {k}, address)

C10_BalanceIsUnspentSum ==
    [][Called("get_balance")
          => /\ ret'.value = UnspentTotal(DOMAIN utxo_db, ret'.arg)
             /\ UNCHANGED <<blocks_db, last_block, stored_block_hashes,
                            utxo_db, block_hashes, unconfirmed_transactions,
                            known_tx_ids, now>>]_vars

\* a balance was read while a spent and an unspent output of that address exist
C10_Witness ==
    /\ ret.op = "get_balance"
    /\ ret.value = REWARD_AMOUNT
    /\ \E k \in DOMAIN utxo_db :
          utxo_db[k].spent /\ utxo_db[k].output.address = ret.arg
    /\ \E k \in DOMAIN utxo_db :
          ~utxo_db[k].spent /\ utxo_db[k].output.address = ret.arg
                            /\ utxo_db[k].output.amount > 0


(***************************************************************************)
(* C11: when the stored transaction list of any block of the chain, the    *)
(* genesis block and the head included, differs from the list its hash was *)
(* computed over and the record was not sealed again, the next             *)
(* is_chain_valid call returns False.                                      *)
(***************************************************************************)
\* the transaction list the digest h was computed over
SealedTransactions(h) == h[2].transactions

AlteredUnsealed(h) ==
    /\ blocks_db[h].hash = h
    /\ blocks_db[h].transactions # SealedTransactions(h)

C11_AlteredListDetected ==
    [][(/\ Called("is_chain_valid")
        /\ \E i \in DOMAIN block_hashes : AlteredUnsealed(block_hashes[i]))
          => ret'.value = FALSE]_vars

(***************************************************************************)
(* C12: is_chain_valid returns False whenever some stored block after the  *)
(* genesis block has a hash that equals its recomputed hash but does not   *)
(* start with header.difficulty zero digits.                               *)
(***************************************************************************)
SealedBelowDifficulty(h) ==
    /\ block_compute_hash(blocks_db[h]) = blocks_db[h].hash
    /\ ~StartsWithZeros(blocks_db[h].hash, blocks_db[h].header.difficulty)

C12_DifficultyVerified ==
    [][(/\ Called("is_chain_valid")
        /\ \E i \in 2..Len(block_hashes) : SealedBelowDifficulty(block_hashes[i]))
          => ret'.value = FALSE]_vars


(***************************************************************************)
(* C13: whenever Block.mine(d) returns, block.hash is compute_hash() of    *)
(* the block with its final header and starts with d zero digits; only the *)
(* nonce and the hash changed; the nonce is the first one, counting up     *)
(* from its starting value in steps of 1, whose hash meets the target, so  *)
(* it is unchanged when the starting hash already does (d = 0 included).   *)
(***************************************************************************)
\* the hash of block when its nonce is n
HashAtNonce(block, n) == block_compute_hash([block EXCEPT !.header.nonce = n])

C13_MineSeals ==
    ret.op = "mine"
       => LET start == ret.arg.block
              d == ret.arg.difficulty
              block == ret.value
          IN /\ block.hash = block_compute_hash(block)
             /\ StartsWithZeros(block.hash, d)
             /\ block = [start EXCEPT !.header.nonce = block.header.nonce,
                                      !.hash = block.hash]
             /\ block.header.nonce >= start.header.nonce
             /\ \A n \in start.header.nonce..(block.header.nonce - 1) :
                   ~StartsWithZeros(HashAtNonce(start, n), d)
             /\ StartsWithZeros(HashAtNonce(start, start.header.nonce), d)
                   => block.header.nonce = start.header.nonce

\* mine(4) returned after counting a nonzero starting nonce up more than once
C13_Witness ==
    /\ ret.op = "mine"
    /\ ret.arg.difficulty = MINE_DIFFICULTY
    /\ ret.arg.block.header.nonce > 0
    /\ ret.value.header.nonce > ret.arg.block.header.nonce + 1

(***************************************************************************)
(* C14: _calculate_merkle_root over a non-empty transaction list is the    *)
(* pairwise reduction over the tx_ids in which every level of odd length,  *)
(* a first level of one included, gets its last hash appended once more    *)
(* before pairing; so the root of [tx] is hash(tx_id + tx_id).             *)
(***************************************************************************)
\* one level of the reference reduction
RECURSIVE ReferencePairs(_)
ReferencePairs(hs) ==
    IF hs = <<>>
    THEN <<>>
    ELSE <<Sha256([left |-> hs[1], right |-> hs[2]])>>
         \o ReferencePairs(SubSeq(hs, 3, Len(hs)))

ReferenceLevel(hs) ==
    ReferencePairs(IF Len(hs) % 2 = 1 THEN Append(hs, hs[Len(hs)]) ELSE hs)

RECURSIVE ReferenceReduce(_)
ReferenceReduce(hs) ==
    IF Len(hs) = 1 THEN hs[1] ELSE ReferenceReduce(ReferenceLevel(hs))

\* the first level is always paired, a level of one included
ReferenceRoot(tx_ids) == ReferenceReduce(ReferenceLevel(tx_ids))

TxIds(transactions) == [i \in DOMAIN transactions |-> transactions[i].tx_id]

C14_MerkleRootIsReference ==
    (ret.op = "_calculate_merkle_root" /\ ret.arg.transactions # <<>>)
       => ret.value = ReferenceRoot(TxIds(ret.arg.transactions))

(***************************************************************************)
(* C15: _calculate_merkle_root([]) returns the one sentinel "", and the    *)
(* merkle_root in the committed header of the genesis block is that same   *)
(* sentinel, the value recomputed over its empty transaction list.         *)
(***************************************************************************)
GenesisBlock == blocks_db[block_hashes[1]]

C15_EmptyRootSentinel ==
    /\ (ret.op = "_calculate_merkle_root" /\ ret.arg.transactions = <<>>)
          => ret.value = EmptyRoot
    /\ GenesisBlock.transactions = <<>>
    /\ GenesisBlock.header.merkle_root = EmptyRoot
    /\ GenesisBlock.header.merkle_root
          = _calculate_merkle_root(GenesisBlock.transactions)

\* the root of the empty list was computed next to a committed genesis block
C15_Witness ==
    /\ ret.op = "_calculate_merkle_root"
    /\ ret.arg.transactions = <<>>
    /\ ret.value = GenesisBlock.header.merkle_root
    /\ GenesisBlock.hash = last_block


(***************************************************************************)
(* C16: in every state, also after _store_block failed part-way, a block   *)
(* is reachable from the stored head pointer or hash list exactly when all *)
(* of its UTXO effects are in the utxo store: an entry for every output    *)
(* and spent = true for every referenced entry.                            *)
(***************************************************************************)
ReachableBlocks ==
    {blocks_db[h] : h \in (({last_block} \cup Range(stored_block_hashes))
                             \cap DOMAIN blocks_db)}

EffectsPresent(block) ==
    \A i \in DOMAIN block.transactions :
       LET tx == block.transactions[i]
       IN /\ \A o \in DOMAIN tx.outputs :
                utxo_key(tx.tx_id, o - 1) \in DOMAIN utxo_db
          /\ \A k \in Refs(tx) \cap DOMAIN utxo_db : utxo_db[k].spent

C16_CommitAtomicWithUtxo ==
    /\ \A block \in ReachableBlocks : EffectsPresent(block)
    /\ \A k \in DOMAIN utxo_db :
          \E block \in ReachableBlocks : block.hash = utxo_db[k].block_hash

(***************************************************************************)
(* C17: in every state, also after a failed block write, the stored head   *)
(* pointer is the last element of the stored hash list, every hash of the  *)
(* list has a stored block record, and self.block_hashes equals the stored *)
(* list.                                                                   *)
(***************************************************************************)
C17_HeadListCacheAgree ==
    /\ last_block = stored_block_hashes[Len(stored_block_hashes)]
    /\ \A i \in DOMAIN stored_block_hashes :
          stored_block_hashes[i] \in DOMAIN blocks_db
    /\ block_hashes = stored_block_hashes

(***************************************************************************)
(* C18: the genesis block (index 0, previous_hash all zeros, no            *)
(* transactions) is created once: __init__ over a store that has a head    *)
(* pointer creates no block and leaves the stored chain as it is, and      *)
(* block_hashes[0] is the same hash after every step.                      *)
(***************************************************************************)
IsGenesis(block) ==
    /\ block.header.index = 0
    /\ block.header.previous_hash = ZeroDigest
    /\ block.transactions = <<>>

C18_GenesisCreatedOnce ==
    [][/\ block_hashes'[1] = block_hashes[1]
       /\ IsGenesis(blocks_db'[block_hashes'[1]])
       /\ {h \in DOMAIN blocks_db' : blocks_db'[h].header.index = 0}
             = {block_hashes'[1]}
       /\ Called("__init__")
             => /\ UNCHANGED <<blocks_db, last_block, stored_block_hashes, utxo_db>>
                /\ block_hashes' = stored_block_hashes]_vars

\* the object was constructed again over a chain of three blocks
C18_Witness ==
    /\ ret.op = "__init__"
    /\ Len(block_hashes) = MaxBlocks
    /\ block_hashes = stored_block_hashes
    /\ IsGenesis(blocks_db[block_hashes[1]])
    /\ unconfirmed_transactions = <<>>

(***************************************************************************)
(* C19: add_transaction rejects every transaction whose tx_id is that of a *)
(* transaction in a committed block or in the mempool, also after the      *)
(* object was constructed again over the same store.                       *)
(***************************************************************************)
HeldTxIds == {t.tx_id : t \in HeldTransactions}

C19_KnownOnChainRejected ==
    [][(Called("add_transaction") /\ ret'.arg.tx_id \in HeldTxIds)
          => ret'.value = FALSE]_vars

(***************************************************************************)
(* C20: when add_transaction rejects a transaction, the mempool,           *)
(* known_tx_ids, the UTXO set and the chain are as before the call.        *)
(***************************************************************************)
C20_RejectionChangesNothing ==
    [][(Called("add_transaction") /\ ret'.value = FALSE)
          => UNCHANGED <<unconfirmed_transactions, known_tx_ids, utxo_db,
                         blocks_db, last_block, stored_block_hashes,
                         block_hashes>>]_vars

\* a transaction spending an unspent output of the sender was rejected while
\* another transaction waits in the mempool
C20_Witness ==
    /\ ret.op = "add_transaction"
    /\ ret.value = FALSE
    /\ InputsUnspent(ret.arg)
    /\ ret.arg.tx_id \notin known_tx_ids
    /\ unconfirmed_transactions # <<>>
    /\ Len(block_hashes) >= 2

(***************************************************************************)
(* C21: add_transaction reports a validation failure by returning False    *)
(* and lets no exception escape; a non-REWARD transaction with an input    *)
(* that references a key absent from the utxo store yields False.          *)
(***************************************************************************)
AddTransactionEnded ==
    ret'.op \in {"add_transaction", "add_transaction:AttributeError"}

C21_AbsentKeyRejected ==
    [][(/\ AddTransactionEnded
        /\ ret'.arg.tx_type # REWARD
        /\ Refs(ret'.arg) \ DOMAIN utxo_db # {})
          => (Called("add_transaction") /\ ret'.value = FALSE)]_vars

(***************************************************************************)
(* C23: MEMORY and FEEDBACK transactions are both accepted whatever their  *)
(* input sum and output sum are, while a MEMORY or FEEDBACK transaction    *)
(* with an input that references an absent or spent entry is rejected.     *)
(***************************************************************************)
UnspentKeys == {k \in DOMAIN utxo_db : ~utxo_db[k].spent}

C23_DataTypesExempt ==
    [][(/\ Called("add_transaction")
        /\ ret'.arg.tx_type \in {MEMORY, FEEDBACK}
        /\ ret'.arg.tx_id \notin known_tx_ids)
          => /\ Refs(ret'.arg) \ UnspentKeys # {} => ret'.value = FALSE
             /\ ret'.arg.inputs = <<>> => ret'.value = TRUE]_vars

(***************************************************************************)
(* C28: every transaction in the mempool or in a committed block has       *)
(* tx_id = hash of its own tx_type, inputs, outputs, timestamp and         *)
(* sender_address; add_transaction admits no transaction whose tx_id       *)
(* differs from that hash.                                                 *)
(***************************************************************************)
IdIsOwnHash(tx) ==
    tx.tx_id = tx_compute_hash(tx.tx_type, tx.inputs, tx.outputs,
                               tx.timestamp, tx.sender_address)

C28_TxIdIsOwnHash == \A tx \in HeldTransactions : IdIsOwnHash(tx)

(***************************************************************************)
(* C26: UTXO entries are never deleted and the spent flag only goes from   *)
(* false to true: a key that exists keeps existing, with the same output   *)
(* and block_hash, over every add_transaction, mine_block and restart, and *)
(* a spent entry stays spent.                                              *)
(***************************************************************************)
C26_UtxoEntriesStable ==
    [][\A k \in DOMAIN utxo_db :
          /\ k \in DOMAIN utxo_db'
          /\ utxo_db'[k].output = utxo_db[k].output
          /\ utxo_db'[k].block_hash = utxo_db[k].block_hash
          /\ utxo_db[k].spent => utxo_db'[k].spent]_vars

(***************************************************************************)
(* C27: the chain is append-only: over every step the block hash list is a *)
(* prefix of the list after the step, and the record stored under a hash   *)
(* stays stored and identical; no operation removes or rewrites a          *)
(* committed block.                                                        *)
(***************************************************************************)
IsPrefix(s, t) == Len(s) <= Len(t) /\ SubSeq(t, 1, Len(s)) = s

C27_ChainAppendOnly ==
    [][/\ IsPrefix(block_hashes, block_hashes')
       /\ IsPrefix(stored_block_hashes, stored_block_hashes')
       /\ \A h \in DOMAIN blocks_db :
             h \in DOMAIN blocks_db' /\ blocks_db'[h] = blocks_db[h]]_vars

\* a third block was appended to a chain loaded from the store
C27_Witness ==
    /\ ret.op = "mine_block"
    /\ ret.value # NoBlock
    /\ Len(block_hashes) = MaxBlocks
    /\ block_hashes[MaxBlocks] = ret.value.hash
    /\ accepted = {ret.value.transactions[2]}
    /\ \A i \in DOMAIN block_hashes : block_hashes[i] \in DOMAIN blocks_db

\* a text that decodes to a public key
WellFormedKey(text) == unhexlify_ok(text) /\ from_string_ok(unhexlify(text))

\* a text that decodes to a signature
WellFormedSignature(text) ==
    unhexlify_ok(text) /\ Len(unhexlify(text)) = KeyBytes

\* the signature is what the owner of the public key signs for the payload
Genuine(public_key_hex, data, signature_hex) ==
    \E k \in 1..(Order - 1) :
        /\ public_key_hex = hexlify(number_to_string(WalletOf(k).public_key))
        /\ signature_hex = sign(WalletOf(k), data)

\* the public key text of a stored entry, empty when the output has none
StoredKey(utxo_data) ==
    IF "public_key" \in DOMAIN utxo_data.output
    THEN utxo_data.output["public_key"]
    ELSE <<>>

\* Wallet.verify_signature returns False for everything but a genuine signature
VerifySignatureFailsClosed ==
    (/\ ret.op = "verify_signature"
     /\ ~Genuine(ret.arg.public_key_hex, ret.arg.data, ret.arg.signature_hex))
    => ret.value = FALSE

\* C22: signature verification fails closed: Wallet.verify_signature returns
\* False for everything but a genuine signature of the payload, and
\* _verify_transaction_input returns False whenever the public key of the
\* spent output or the signature of the input is malformed
C22_VerificationFailsClosed ==
    /\ VerifySignatureFailsClosed
    /\ (/\ ret.op = "_verify_transaction_input"
        /\ \/ ~WellFormedKey(StoredKey(ret.arg.utxo_data))
           \/ ~WellFormedSignature(ret.arg.tx_input.signature))
       => ret.value = FALSE

\* the text is what export_private_key gives for some wallet
ValidExportedKey(text) ==
    \E k \in 1..(Order - 1) : text = export_private_key(WalletOf(k))

\* C29: for every private_key argument that is not a valid exported key, the
\* empty text included, Wallet(private_key=...) raises and the /wallets
\* endpoint answers with an error and registers no wallet
C29_MalformedKeyRejected ==
    /\ (/\ ret.op = "Wallet"
        /\ ret.arg.private_key.given
        /\ ~ValidExportedKey(ret.arg.private_key.text))
       => "raised" \in DOMAIN ret.value
    /\ (/\ ret.op = "create_wallet"
        /\ ret.arg.private_key.given
        /\ ~ValidExportedKey(ret.arg.private_key.text))
       => ret.value.status = 400

\* the same statement without the empty text
MalformedNonEmptyKeyRejected ==
    /\ (/\ ret.op = "Wallet"
        /\ ret.arg.private_key.given
        /\ ret.arg.private_key.text # <<>>
        /\ ~ValidExportedKey(ret.arg.private_key.text))
       => "raised" \in DOMAIN ret.value
    /\ (/\ ret.op = "create_wallet"
        /\ ret.arg.private_key.given
        /\ ret.arg.private_key.text # <<>>
        /\ ~ValidExportedKey(ret.arg.private_key.text))
       => ret.value.status = 400

\* C30: a wallet made from the exported key of a wallet has the address of
\* that wallet, and the address of a wallet is a function of the wallet
C30_RoundTripAddress ==
    ret.op = "import_exported"
    => /\ ~("raised" \in DOMAIN ret.value)
       /\ wallet_address(ret.value) = wallet_address(ret.arg)

\* a wallet whose exported key starts with zero digits was exported and
\* imported again
C30_Witness ==
    /\ ret.op = "import_exported"
    /\ export_private_key(ret.arg)[1] = 0
    /\ wallet_address(ret.value) = wallet_address(ret.arg)

\* C24: of two mine_block calls that read the same head at most one commits:
\* no two committed blocks have the same index or the same previous_hash
C24_OneBlockPerHead ==
    \A h1 \in DOMAIN blocks_db : \A h2 \in DOMAIN blocks_db :
        h1 # h2
        => /\ blocks_db[h1].header.index # blocks_db[h2].header.index
           /\ blocks_db[h1].header.previous_hash
                 # blocks_db[h2].header.previous_hash

\* the transactions of every block in the store
StoredTransactions ==
    UNION {Range(blocks_db[h].transactions) : h \in DOMAIN blocks_db}

\* C25: every transaction add_transaction accepted is, in every later state
\* of the object, in the mempool or in a committed block; one accepted
\* between the mempool copy of mine_block and its clearing of the mempool
\* stays in the mempool
C25_AcceptedNeverDropped ==
    \A transaction \in accepted :
        \/ transaction \in Range(unconfirmed_transactions)
        \/ transaction \in StoredTransactions

\* C31: through add_transaction, mine_block and restart, the i-th block of the
\* hash list (counted from 0) has header.index = i and, after the first, the
\* previous_hash that is the hash of the block before it, and is_chain_valid
\* returns True
C31_ChainLinkedAndValid ==
    /\ \A i \in DOMAIN block_hashes :
          /\ block_hashes[i] \in DOMAIN blocks_db
          /\ blocks_db[block_hashes[i]].header.index = i - 1
          /\ i >= 2 => blocks_db[block_hashes[i]].header.previous_hash
                          = blocks_db[block_hashes[i - 1]].hash
    /\ ret.op = "is_chain_valid" => ret.value = TRUE

\* is_chain_valid returned True on a chain of two mined blocks
C31_Witness ==
    /\ ret.op = "is_chain_valid"
    /\ ret.value = TRUE
    /\ Len(block_hashes) >= 3

\* the stored block is what mine leaves: hash, proof of work and merkle root
SelfConsistent(block) ==
    /\ block.hash = block_compute_hash(block)
    /\ StartsWithZeros(block.hash, block.header.difficulty)
    /\ block.header.merkle_root = _calculate_merkle_root(block.transactions)

\* C32: every committed block, the genesis block included, has a stored hash
\* that is compute_hash() of its header and transactions and starts with
\* header.difficulty zero digits, and a merkle_root that is
\* _calculate_merkle_root of its transactions
C32_CommittedBlocksSelfConsistent ==
    \A h \in DOMAIN blocks_db : SelfConsistent(blocks_db[h])

\* a block of the reward and two transactions was committed over the genesis
\* block, and the object was constructed again over the store
C32_Witness ==
    /\ ret.op = "__init__"
    /\ \E h \in DOMAIN blocks_db :
          /\ Len(blocks_db[h].transactions) = 3
          /\ SelfConsistent(blocks_db[h])
    /\ SelfConsistent(blocks_db[block_hashes[1]])

\* the reward transaction that mine_block builds for one of the miners
IsMinerReward(transaction) ==
    /\ transaction.tx_type = REWARD
    /\ transaction.inputs = <<>>
    /\ Len(transaction.outputs) = 1
    /\ transaction.outputs[1].amount = REWARD_AMOUNT
    /\ transaction.outputs[1].address \in Miners

\* C33: every committed block after the genesis block has exactly one REWARD
\* transaction, its first, without inputs and with the single output of the
\* fixed reward to the miner; no REWARD transaction is in the mempool
C33_SingleReward ==
    /\ \A transaction \in Range(unconfirmed_transactions) :
          transaction.tx_type # REWARD
    /\ \A i \in 2..Len(block_hashes) :
          LET transactions == blocks_db[block_hashes[i]].transactions
          IN /\ IsMinerReward(transactions[1])
             /\ \A j \in 2..Len(transactions) : transactions[j].tx_type # REWARD

\* C34: value is created by mining only: the amounts of the unspent entries
\* of the utxo store sum to at most the fixed reward times the number of
\* blocks mined after the genesis block
C34_ValueFromMiningOnly ==
    SumAmounts(utxo_db, UnspentKeys) <= REWARD_AMOUNT * (Len(block_hashes) - 1)

\* C35: every entry of the utxo store has an amount of at least 0, so
\* get_balance returns at least 0 for every address, and no transaction with
\* a negative output amount is admitted to the mempool
C35_AmountsNonNegative ==
    /\ \A k \in DOMAIN utxo_db : utxo_db[k].output.amount >= 0
    /\ \A transaction \in Range(unconfirmed_transactions) :
          \A i \in DOMAIN transaction.outputs :
              transaction.outputs[i].amount >= 0
    /\ ret.op = "get_balance" => ret.value >= 0

\* the utxo keys that the inputs of the block's transactions reference
BlockRefs(block) == UNION {Refs(tx) : tx \in Range(block.transactions)}

\* C36: after mine_block commits block B, every output of every transaction
\* of B, zero-amount ones included, has a utxo entry with B's hash that is
\* unspent unless an input of B references it, and every utxo entry that an
\* input of B references is spent
C36_UtxoUpdatedByBlock ==
    [][(Called("mine_block") /\ unconfirmed_transactions # <<>>)
          => LET block == ret'.value
             IN /\ \A tx \in Range(block.transactions) :
                      \A i \in DOMAIN tx.outputs :
                         LET key == utxo_key(tx.tx_id, i - 1)
                         IN /\ key \in DOMAIN utxo_db'
                            /\ utxo_db'[key].block_hash = block.hash
                            /\ utxo_db'[key].output = tx.outputs[i]
                            /\ utxo_db'[key].spent => key \in BlockRefs(block)
                /\ \A key \in BlockRefs(block) \cap DOMAIN utxo_db' :
                      utxo_db'[key].spent]_vars

\* C37: the proof-of-work search makes a bounded number of attempts and then
\* returns a sealed block or reports a failure: no search is still in its
\* loop after every value of the digest was tried
C37_SearchBounded ==
    ret.op = "mine:while" => Attempts <= SearchBound

\* what the stepwise search returns is what mine returns
SearchReturnsMine ==
    ret.op = "mine" => ret.value = mine(ret.arg.block, ret.arg.difficulty)

\* a search for a difficulty within the digest length ends within the bound
SearchWithinLengthBounded ==
    (ret.op = "mine:while" /\ ret.arg.difficulty <= DigestLength)
    => /\ Attempts < SearchBound
       /\ ENABLED (mine_attempt \/ mine_return)

\* the sum of the balances of the wallets collection
TotalBalance == wallets["W1"].balance + wallets["W2"].balance

NoOverdraft == \A address \in DOMAIN wallets : wallets[address].balance >= 0

\* the call failed inside its try block
FailedInTry ==
    /\ ret.op = "submit_transaction:raised"
    /\ ret.value \in {"UnboundLocalError", "Error"}

ConstructorFailureRestoresWallets ==
    (ret.op = "submit_transaction:raised" /\ ret.value = "UnboundLocalError")
    => wallets = WalletDocuments

====
